---- MODULE Spec2Model ----
(***************************************************************************)
(* Model of src/src/vec.rs: a growable vector over a raw heap allocation.  *)
(* State is the Vec's three fields, the contents of its block, the         *)
(* allocator's table of live blocks, and history variables recording what   *)
(* each call returned and did.                                              *)
(***************************************************************************)
EXTENDS Integers, Sequences, FiniteSets, TLC

\* ---------------------------------------------------------------- bounds
\* Largest width of usize in bits; the platform's width W is this or one less.
UsizeBits == 4
\* Pushes that can succeed are offered only while len < MaxLen.
MaxLen == 3
\* Element values are 1..NumVals.
NumVals == 2
\* Heap addresses the allocator can hand out are 1..NumAddrs.
NumAddrs == 2
\* Largest size_of::<T>() considered.
MaxSize == 2

\* ------------------------------------------------------------- constants
\* The null pointer, and NonNull::dangling(): an address that is not null and
\* is no block of the allocator.
Null == 0
Dangling == NumAddrs + 1
\* Markers, distinct from every element value: the content of a slot never
\* written, and what a read past the end of the block meets.
Uninit == NumVals + 1
OutOfBounds == NumVals + 2

Pow2(n) == 2 ^ n
Widths == {UsizeBits - 1, UsizeBits}

Vals == 1..NumVals
Addrs == 1..NumAddrs
Aligns == {1, 2, 4, 8}
\* The element types T: nonzero size (vec.rs:35), size a multiple of align.
ElemTypes == {t \in [size : 1..MaxSize, align : Aligns] : t.size % t.align = 0}

VARIABLES
    W,        \* width of usize on the platform, in bits
    T,        \* size and alignment of the element type
    ptr,      \* self.ptr
    cap,      \* self.cap
    len,      \* self.len
    mem,      \* slot contents of the block at ptr (slot i is mem[i+1])
    heap,     \* allocator: address -> byte size of the live block, 0 if free
    pc,       \* "running", "panicked", "aborted", "dropped"
    ret,      \* what the last call returned
    last,     \* the last call: its name, argument and the state it started in
    prev,     \* the call before the last one, if it was a push
    model,    \* the ideal sequence the same pushes and pops produce
    popped,   \* whether any pop has been called since new()
    calls,    \* the allocator calls made so far, in order
    dropLog,  \* the elements destructed by drop, in order
    live,     \* the slots that hold a live element
    acc,      \* the slots the last call read or wrote through ptr, in order
    grown,    \* whether the last call ran grow, how it ended, the block it left
    peak      \* the largest len so far

\* Mutant: the limit is usize::MAX.
ISizeMax_usize == Pow2(W) - 1
\* usize arithmetic is modulo UsizeMod; isize::MAX.
UsizeMod == Pow2(W)
ISizeMax == Pow2(W - 1) - 1

vars == <<W, T, ptr, cap, len, mem, heap, pc, ret, last, prev, model, popped, calls,
         dropLog, live, acc, grown, peak>>

\* ------------------------------------------------------------ primitives
None == [kind |-> "none"]
Some(x) == [kind |-> "some", val |-> x]
Unit == [kind |-> "unit"]

\* ptr.add(i) read / write of one slot of the block.
ptr_read(m, i) == IF 0 <= i /\ i < Len(m) THEN m[i + 1] ELSE OutOfBounds
\* Mutant: the write forgets .add(self.len) and lands on slot 0.
ptr_write_first(m, i, v) == IF 0 < Len(m) THEN [m EXCEPT ![1] = v] ELSE m
ptr_write(m, i, v) == IF 0 <= i /\ i < Len(m) THEN [m EXCEPT ![i + 1] = v] ELSE m

\* std::slice::from_raw_parts(p, n): the n slots starting at p.
from_raw_parts(m, n) == [i \in 1..n |-> ptr_read(m, i - 1)]

\* Layout::array::<T>(n): the byte size, or an error when it does not fit.
LayoutErr == [ok |-> FALSE]
\* Mutant: the byte size is computed without the check against isize::MAX.
Layout_array_unchecked(n) == [ok |-> TRUE, size |-> n * T.size]
Layout_array(n) ==
    IF n > (ISizeMax - (T.align - 1)) \div T.size
    THEN LayoutErr
    ELSE [ok |-> TRUE, size |-> n * T.size]

\* Mutant: the new block does not keep the old contents.
Resized_lossy(m, n) == [i \in 1..n |-> Uninit]
\* Mutant: the new block keeps all but the last slot of the old one.
Resized_short(m, n) == [i \in 1..n |-> IF i < Len(m) THEN m[i] ELSE Uninit]
\* A block of n slots that keeps the first slots of m (realloc, alloc).
Resized(m, n) == [i \in 1..n |-> IF i <= Len(m) THEN m[i] ELSE Uninit]

FreeAddrs == {a \in Addrs : heap[a] = 0}

\* slice::from_raw_parts(self.ptr.as_ptr(), self.len), as deref and deref_mut
\* call it: the length of the window and its elements.
\* Mutant: the window is cap slots long.
deref_len_cap == cap
deref_len == len
deref_slice == from_raw_parts(mem, deref_len)

\* The elements a view shows.
View == deref_slice

\* What is kept of the call before the last one: a push with its argument and
\* the len and cap it started in, or that it was no push.
NoPush == [op |-> "other", elem |-> 0, len |-> 0, cap |-> 0]
Before ==
    IF last.op = "push"
    THEN [op |-> "push", elem |-> last.elem, len |-> last.len, cap |-> last.cap]
    ELSE NoPush

Snapshot(op, elem) ==
    [op |-> op, elem |-> elem, len |-> len, cap |-> cap, ptr |-> ptr,
     view |-> View, heap |-> heap, ncalls |-> Len(calls), mem |-> mem]

\* One read or write of slot idx of block m through ptr: whether the slot
\* held a live element, the capacity at that moment, whether the slot is in
\* the block.
Access(kind, idx, m, c) ==
    [kind |-> kind, idx |-> idx, live |-> idx \in live, cap |-> c,
     inblock |-> 0 <= idx /\ idx < Len(m)]

NoGrow == [n |-> 0, kind |-> "none", mem |-> <<>>]

\* ------------------------------------------------------------------ new
new ==
    /\ W \in Widths
    /\ T \in ElemTypes
    /\ ptr = Dangling
    /\ cap = 0
    /\ len = 0
    /\ mem = <<>>
    /\ heap = [a \in Addrs |-> 0]
    /\ pc = "running"
    /\ ret = Unit
    /\ last = [op |-> "new", elem |-> 0, len |-> 0, cap |-> 0, ptr |-> Dangling,
               view |-> <<>>, heap |-> [a \in Addrs |-> 0], ncalls |-> 0,
               mem |-> <<>>]
    /\ prev = NoPush
    /\ model = <<>>
    /\ popped = FALSE
    /\ calls = <<>>
    /\ dropLog = <<>>
    /\ live = {}
    /\ acc = <<>>
    /\ grown = NoGrow
    /\ peak = 0

Init == new

\* ----------------------------------------------------------------- grow
\* The allocator's free(): the table without the block at a.
Released(h, a) == [x \in Addrs |-> IF x = a THEN 0 ELSE h[x]]
Granted(h, a, bytes) == [x \in Addrs |-> IF x = a THEN bytes ELSE h[x]]

\* An allocator call made while self.len is l: the arguments, the result,
\* self.cap and self.ptr at the call, and the byte size the allocator holds
\* at the address passed (0 if it holds no block there).
CallAt(l, fn, addr, old, nw, res) ==
    [fn |-> fn, addr |-> addr, old |-> old, new |-> nw, res |-> res,
     len |-> l, cap |-> cap, ptr |-> ptr,
     held |-> IF addr \in Addrs THEN heap[addr] ELSE 0]
Call(fn, addr, old, nw, res) == CallAt(len, fn, addr, old, nw, res)

\* An outcome of grow: it returns ("ok"), panics before any allocator call
\* ("panicked"), or the allocator fails and handle_alloc_error ends the
\* process ("aborted"). The fields are self.ptr, self.cap, the block and the
\* allocator as grow leaves them.
Outcome(kind, p, c, m, h, cs) ==
    [kind |-> kind, ptr |-> p, cap |-> c, mem |-> m, heap |-> h, calls |-> cs]
Unchanged(kind) == Outcome(kind, ptr, cap, mem, heap, calls)

\* Mutants: growth that does not grow, and growth by one slot.
grow_new_cap_same == IF cap = 0 THEN 1 ELSE cap
grow_new_cap_plus1 == IF cap = 0 THEN 1 ELSE (cap + 1) % UsizeMod
\* Mutant: the first allocation is of two slots.
grow_new_cap_init2 == IF cap = 0 THEN 2 ELSE (2 * cap) % UsizeMod
\* let new_cap = if self.cap == 0 { 1 } else { 2 * self.cap } in usize.
grow_new_cap == IF cap = 0 THEN 1 ELSE (2 * cap) % UsizeMod

\* Mutant: the result of alloc is stored without the check for null.
grow_alloc_nocheck(new_cap, new_size) ==
    {Outcome("ok", Null, new_cap, mem, heap,
             Append(calls, Call("alloc", Null, 0, new_size, Null)))}
    \cup
    {Outcome("ok", a, new_cap, Resized(<<>>, new_size \div T.size),
             Granted(heap, a, new_size),
             Append(calls, Call("alloc", Null, 0, new_size, a))) : a \in FreeAddrs}

\* alloc::alloc(new_layout), then the match on NonNull::new.
grow_alloc(new_cap, new_size) ==
    {Outcome("aborted", ptr, cap, mem, heap,
             Append(calls, Call("alloc", Null, 0, new_size, Null)))}
    \cup
    {Outcome("ok", a, new_cap, Resized(<<>>, new_size \div T.size),
             Granted(heap, a, new_size),
             Append(calls, Call("alloc", Null, 0, new_size, a))) : a \in FreeAddrs}

\* Mutant: realloc is passed the new layout as the old one.
grow_realloc_newlayout(new_cap, old_size, new_size) ==
    {Outcome("aborted", ptr, cap, mem, heap,
             Append(calls, Call("realloc", ptr, new_size, new_size, Null)))}
    \cup
    {Outcome("ok", a, new_cap, Resized(mem, new_size \div T.size),
             Granted(Released(heap, ptr), a, new_size),
             Append(calls, Call("realloc", ptr, new_size, new_size, a)))
        : a \in FreeAddrs \cup ({ptr} \cap Addrs)}

\* alloc::realloc(old_ptr, old_layout, new_layout.size()), then the match.
grow_realloc(new_cap, old_size, new_size) ==
    {Outcome("aborted", ptr, cap, mem, heap,
             Append(calls, Call("realloc", ptr, old_size, new_size, Null)))}
    \cup
    {Outcome("ok", a, new_cap, Resized(mem, new_size \div T.size),
             Granted(Released(heap, ptr), a, new_size),
             Append(calls, Call("realloc", ptr, old_size, new_size, a)))
        : a \in FreeAddrs \cup ({ptr} \cap Addrs)}

\* Vec::grow: the set of ways one call can end.
grow ==
    LET new_cap == grow_new_cap
        new_layout == Layout_array(new_cap)
        old_layout == Layout_array(cap)
        \* 2 * self.cap overflowing usize panics in a build with overflow
        \* checks and wraps in one without.
        overflow == IF cap # 0 /\ 2 * cap >= UsizeMod
                    THEN {Unchanged("panicked")} ELSE {}
        rest == IF ~new_layout.ok THEN {Unchanged("panicked")}
                ELSE IF ~(new_cap <= ISizeMax) THEN {Unchanged("panicked")}
                ELSE IF cap = 0 THEN grow_alloc(new_cap, new_layout.size)
                ELSE IF ~old_layout.ok THEN {Unchanged("panicked")}
                ELSE grow_realloc(new_cap, old_layout.size, new_layout.size)
    IN overflow \cup rest

\* ----------------------------------------------------------------- push
\* Beyond MaxLen a push is still offered where growth would ask for more
\* than 2^(W-1) - 1 bytes.
PastLimit == len = cap /\ 2 * cap * T.size > Pow2(W - 1) - 1

\* Mutants: growth one push early; the write lands on the last live slot.
push_needs_grow_early == len + 1 >= cap
push_slot_last == IF len = 0 THEN 0 ELSE len - 1
\* if self.len == self.cap { self.grow(); }
push_needs_grow == len = cap
\* The slot of ptr::write: self.ptr.as_ptr().add(self.len).
push_slot == len

push(elem) ==
    /\ pc = "running"
    /\ len < MaxLen \/ PastLimit
    /\ \E g \in (IF push_needs_grow THEN grow ELSE {Unchanged("ok")}) :
          /\ calls' = g.calls
          /\ grown' = IF push_needs_grow
                      THEN [n |-> 1, kind |-> g.kind, mem |-> g.mem]
                      ELSE NoGrow
          /\ IF g.kind = "ok"
             THEN /\ ptr' = g.ptr
                  /\ cap' = g.cap
                  /\ heap' = g.heap
                  /\ mem' = ptr_write(g.mem, push_slot, elem)
                  /\ live' = live \cup {push_slot}
                  /\ acc' = <<Access("write", push_slot, g.mem, g.cap)>>
                  /\ len' = (len + 1) % UsizeMod
                  /\ peak' = IF len' > peak THEN len' ELSE peak
                  /\ pc' = pc
                  /\ ret' = Unit
                  /\ model' = Append(model, elem)
             ELSE /\ pc' = g.kind
                  /\ ret' = [kind |-> "diverged"]
                  /\ acc' = <<>>
                  /\ UNCHANGED <<ptr, cap, heap, mem, len, model, live, peak>>
    /\ last' = Snapshot("push", elem)
    /\ prev' = Before
    /\ UNCHANGED <<W, T, popped, dropLog>>

\* ------------------------------------------------------------------ pop
\* The body of Vec::pop on a Vec of length l over block m: the new length,
\* the value returned and the slots read through ptr.
\* Mutants: the read uses the length before the decrement; the read takes
\* the element below the one removed.
pop_body_next(l, m) ==
    IF l = 0
    THEN [len |-> l, ret |-> None, read |-> <<>>]
    ELSE [len |-> l - 1, ret |-> Some(ptr_read(m, l)), read |-> <<l>>]
pop_body_peek(l, m) ==
    IF l = 0
    THEN [len |-> l, ret |-> None, read |-> <<>>]
    ELSE [len |-> l - 1, ret |-> Some(ptr_read(m, l - 2)), read |-> <<l - 2>>]

pop_body(l, m) ==
    IF l = 0
    THEN [len |-> l, ret |-> None, read |-> <<>>]
    ELSE [len |-> l - 1, ret |-> Some(ptr_read(m, l - 1)), read |-> <<l - 1>>]

\* Mutant: pop without the check for len = 0.
pop_unchecked ==
    /\ pc = "running"
    /\ len' = (len - 1) % UsizeMod
    /\ ret' = Some(ptr_read(mem, (len - 1) % UsizeMod))
    /\ acc' = <<Access("read", (len - 1) % UsizeMod, mem, cap)>>
    /\ live' = live \ {(len - 1) % UsizeMod}
    /\ grown' = NoGrow
    /\ last' = Snapshot("pop", 0)
    /\ prev' = Before
    /\ popped' = TRUE
    /\ model' = IF model = <<>> THEN model ELSE SubSeq(model, 1, Len(model) - 1)
    /\ UNCHANGED <<W, T, ptr, cap, mem, heap, pc, calls, dropLog, peak>>

\* Mutant: pop gives the unused capacity up.
pop_shrinks ==
    /\ pc = "running"
    /\ LET r == pop_body(len, mem)
       IN /\ len' = r.len
          /\ ret' = r.ret
          /\ cap' = r.len
          /\ mem' = Resized(mem, r.len)
          /\ acc' = [k \in 1..Len(r.read) |-> Access("read", r.read[k], mem, cap)]
          /\ live' = live \ {r.read[k] : k \in 1..Len(r.read)}
    /\ grown' = NoGrow
    /\ last' = Snapshot("pop", 0)
    /\ prev' = Before
    /\ popped' = TRUE
    /\ model' = IF model = <<>> THEN model ELSE SubSeq(model, 1, Len(model) - 1)
    /\ UNCHANGED <<W, T, ptr, heap, pc, calls, dropLog, peak>>

pop ==
    /\ pc = "running"
    /\ LET r == pop_body(len, mem)
       IN /\ len' = r.len
          /\ ret' = r.ret
          /\ acc' = [k \in 1..Len(r.read) |-> Access("read", r.read[k], mem, cap)]
          /\ live' = live \ {r.read[k] : k \in 1..Len(r.read)}
    /\ grown' = NoGrow
    /\ last' = Snapshot("pop", 0)
    /\ prev' = Before
    /\ popped' = TRUE
    /\ model' = IF model = <<>> THEN model ELSE SubSeq(model, 1, Len(model) - 1)
    /\ UNCHANGED <<W, T, ptr, cap, mem, heap, pc, calls, dropLog, peak>>

\* ------------------------------------------------------- deref, deref_mut
Slice(n, elems, mut) == [kind |-> "slice", len |-> n, elems |-> elems, mut |-> mut]

deref ==
    /\ pc = "running"
    /\ ret' = Slice(deref_len, deref_slice, FALSE)
    /\ last' = Snapshot("deref", 0)
    /\ prev' = Before
    /\ acc' = <<>>
    /\ grown' = NoGrow
    /\ UNCHANGED <<W, T, ptr, cap, len, mem, heap, pc, model, popped, calls, dropLog,
                   live, peak>>

deref_mut ==
    /\ pc = "running"
    /\ ret' = Slice(deref_len, deref_slice, TRUE)
    /\ last' = Snapshot("deref_mut", 0)
    /\ prev' = Before
    /\ acc' = <<>>
    /\ grown' = NoGrow
    /\ UNCHANGED <<W, T, ptr, cap, len, mem, heap, pc, model, popped, calls, dropLog,
                   live, peak>>

\* ----------------------------------------------------------------- drop
\* loop { match self.pop() { None => break, Some(_) => {} } }: each value
\* popped is destructed at once; the log records its slot and its value.
\* Mutant: drop frees the block without popping the elements.
drop_loop_none(l, m, log) == [len |-> l, log |-> log]

\* Mutant: drop destructs the elements from the first to the last.
drop_loop_forward(l, m, log) ==
    [len |-> 0, log |-> log \o [k \in 1..l |-> [idx |-> k - 1, val |-> ptr_read(m, k - 1)]]]

RECURSIVE drop_loop(_, _, _)
drop_loop(l, m, log) ==
    LET r == pop_body(l, m)
    IN IF r.ret = None
       THEN [len |-> r.len, log |-> log]
       ELSE drop_loop(r.len, m, Append(log, [idx |-> r.read[1], val |-> r.ret.val]))

\* Drop::drop. It runs when the owner goes out of scope, also while a panic
\* raised in push unwinds.
drop ==
    /\ pc \in {"running", "panicked"}
    /\ IF cap = 0
       THEN /\ pc' = "dropped"
            /\ acc' = <<>>
            /\ UNCHANGED <<len, heap, calls, dropLog, live>>
       ELSE LET r == drop_loop(len, mem, <<>>)
                layout == Layout_array(cap)
                gone(k) == {r.log[j].idx : j \in 1..(k - 1)}
            IN /\ len' = r.len
               /\ dropLog' = r.log
               /\ acc' = [k \in 1..Len(r.log) |->
                            [Access("read", r.log[k].idx, mem, cap)
                               EXCEPT !.live = r.log[k].idx \in (live \ gone(k))]]
               /\ live' = live \ gone(Len(r.log) + 1)
               /\ IF layout.ok
                  THEN /\ heap' = Released(heap, ptr)
                       /\ calls' = Append(calls,
                                          CallAt(r.len, "dealloc", ptr, layout.size,
                                                 0, Null))
                       /\ pc' = "dropped"
                  ELSE /\ pc' = "aborted"
                       /\ UNCHANGED <<heap, calls>>
    /\ ret' = Unit
    /\ last' = Snapshot("drop", 0)
    /\ prev' = Before
    /\ grown' = NoGrow
    /\ UNCHANGED <<W, T, ptr, cap, mem, model, popped, peak>>

\* ------------------------------------------------------------------ spec
Next ==
    \/ \E elem \in Vals : push(elem)
    \/ pop
    \/ deref
    \/ deref_mut
    \/ drop

Spec == Init /\ [][Next]_vars

TypeOK ==
    /\ W \in Widths
    /\ T \in ElemTypes
    /\ cap \in 0..(UsizeMod - 1)
    /\ len \in 0..(UsizeMod - 1)
    /\ ptr \in Addrs \cup {Dangling}
    /\ pc \in {"running", "panicked", "aborted", "dropped"}

\* ================================================================ claims
Returned == pc = "running"
DeallocCalls == {k \in 1..Len(calls) : calls[k].fn = "dealloc"}

\* C1: from a new Vec, after N pushes and no pop, len = N, cap >= N and the
\* view is the N pushed elements in push order.
C1_PushesOnly ==
    (Returned /\ ~popped) =>
        /\ len = Len(model)
        /\ cap >= Len(model)
        /\ View = model
        /\ (ret.kind = "slice" => ret.elems = model)

C1_Witness ==
    /\ Returned /\ ~popped
    /\ Len(model) = 3 /\ model[1] # model[2]
    /\ last.op = "deref" /\ ret.kind = "slice"

\* C2: after any interleaving of pushes and pops the view has exactly len
\* elements, equals the ideal sequence element for element, and shows no
\* slot at an index >= len.
C2_ViewRefinesModel ==
    Returned =>
        /\ Len(View) = len
        /\ \A i \in 1..Len(View) : i <= Len(model) /\ View[i] = model[i]
        /\ Len(model) = Len(View)
        /\ (ret.kind = "slice" =>
              /\ ret.len = len
              /\ DOMAIN ret.elems = 1..len
              /\ \A i \in DOMAIN ret.elems : ret.elems[i] = model[i])

C2_Witness ==
    /\ Returned /\ popped
    /\ last.op \in {"deref", "deref_mut"} /\ ret.kind = "slice"
    /\ len = 2 /\ cap = 4
    /\ mem[3] \in Vals /\ mem[3] # mem[2]

C4_PopEmpty ==
    (last.op = "pop" /\ last.len = 0) =>
        /\ ret = None
        /\ Returned
        /\ len = 0
        /\ cap = last.cap
        /\ ptr = last.ptr
        /\ heap = last.heap
        /\ Len(calls) = last.ncalls

C4_Witness ==
    /\ last.op = "pop" /\ last.len = 0 /\ last.cap > 0
    /\ ret = None

\* C5: in every reachable state 0 <= len <= cap.
C5_LenWithinCap == 0 <= len /\ len <= cap

C5_Witness == last.op = "push" /\ Returned /\ len = cap /\ cap = 2 /\ popped

\* C6: no step lowers the capacity, and pop leaves it as it was.
C6_CapNeverShrinks ==
    /\ cap >= last.cap
    /\ (last.op = "pop" => cap = last.cap)

C6_Witness == last.op = "pop" /\ last.len = 1 /\ last.cap = 4 /\ cap = 4 /\ len = 0

\* C7: the first push on a new Vec sets cap to exactly 1, and every later
\* change of cap sets it to exactly twice its value before.
C7_GrowthPolicy ==
    /\ (last.op = "push" /\ last.cap = 0 /\ Returned) => cap = 1
    /\ (cap # last.cap) =>
          /\ last.op = "push"
          /\ cap = (IF last.cap = 0 THEN 1 ELSE 2 * last.cap)

C7_Witness == last.op = "push" /\ Returned /\ last.cap = 2 /\ cap = 4

\* C8: drop of a Vec holding K live elements destructs each of the K once
\* and no other slot, calls dealloc once if cap > 0 and never if cap = 0,
\* and leaves no block allocated.
C8_DropReleasesAll ==
    (pc = "dropped") =>
        /\ Len(dropLog) = last.len
        /\ \A i \in 0..(last.len - 1) :
              /\ Cardinality({k \in 1..Len(dropLog) : dropLog[k].idx = i}) = 1
              /\ \A k \in 1..Len(dropLog) :
                    dropLog[k].idx = i => dropLog[k].val = last.view[i + 1]
        /\ \A k \in 1..Len(dropLog) : dropLog[k].idx \in 0..(last.len - 1)
        /\ Cardinality(DeallocCalls) = (IF cap > 0 THEN 1 ELSE 0)
        /\ \A k \in DeallocCalls : calls[k].addr = last.ptr
        /\ \A a \in Addrs : heap[a] = 0

C8_Witness ==
    /\ pc = "dropped" /\ last.op = "drop"
    /\ last.len = 2 /\ cap = 4 /\ popped
    /\ Len(dropLog) = 2 /\ dropLog[1].val # dropLog[2].val

ByteLimit == Pow2(W - 1) - 1
Doubled(c) == IF c = 0 THEN 1 ELSE 2 * c
GrowCalls == {k \in 1..Len(calls) : calls[k].fn \in {"alloc", "realloc"}}

\* C11: when the byte size of the new capacity exceeds isize::MAX, grow ends
\* the push before any alloc or realloc call, for every element size; no
\* allocator request ever asks for more bytes than that limit.
C11_OverflowGuard ==
    /\ \A k \in GrowCalls : calls[k].new <= ByteLimit
    /\ (last.op = "push" /\ grown.n = 1 /\ Doubled(last.cap) * T.size > ByteLimit) =>
          /\ grown.kind = "panicked"
          /\ pc = "panicked"
          /\ Len(calls) = last.ncalls
          /\ cap = last.cap /\ ptr = last.ptr /\ len = last.len

C11_Witness ==
    /\ last.op = "push" /\ grown.kind = "panicked"
    /\ T.size = 2 /\ last.cap = 2 /\ W = UsizeBits
    /\ Len(calls) = 2

\* C12: when alloc or realloc returns null the process ends inside push:
\* ptr, cap, len and the block are as before the push, the element is not
\* written, the call is not retried and nothing runs afterwards.
C12_AllocFailureFatal ==
    /\ \A k \in GrowCalls : calls[k].res = Null => (k = Len(calls) /\ pc = "aborted")
    /\ (pc = "aborted") =>
          /\ last.op = "push" /\ grown.kind = "aborted"
          /\ ret.kind = "diverged"
          /\ Len(calls) = last.ncalls + 1
          /\ calls[Len(calls)].res = Null
          /\ ptr = last.ptr /\ cap = last.cap /\ len = last.len
          /\ mem = last.mem /\ heap = last.heap
          /\ Len(model) = last.len

C12_Witness ==
    /\ pc = "aborted" /\ last.op = "push"
    /\ last.cap = 2 /\ last.len = 2
    /\ calls[Len(calls)].fn = "realloc" /\ calls[Len(calls)].res = Null

\* C13: a grow that succeeds changes ptr and cap only: len is as before (the
\* push adds its one element afterwards), every live element has the value
\* it had, also when the block moved, and nothing is destructed.
C13_GrowFrame ==
    (grown.n = 1 /\ grown.kind = "ok") =>
        /\ last.op = "push"
        /\ len = last.len + 1
        /\ Len(grown.mem) = cap
        /\ \A i \in 1..last.len : grown.mem[i] = last.mem[i] /\ mem[i] = last.mem[i]
        /\ SubSeq(View, 1, last.len) = last.view
        /\ Len(acc) = 1 /\ acc[1].kind = "write" /\ acc[1].idx = last.len
        /\ dropLog = <<>>

C13_Witness ==
    /\ grown.n = 1 /\ grown.kind = "ok"
    /\ last.ptr \in Addrs /\ ptr # last.ptr
    /\ last.len = 2 /\ last.view[1] # last.view[2]

\* C14: grow, and with it every alloc or realloc call and every change of cap
\* or ptr, happens only inside a push that starts with len = cap, at most
\* once per push; a push that starts with len < cap, a pop and a view make no
\* allocator call and leave cap and ptr as they were.
C14_GrowOnlyWhenFull ==
    /\ grown.n <= 1
    /\ (grown.n = 1) => (last.op = "push" /\ last.len = last.cap)
    /\ (last.op # "drop" /\ Len(calls) # last.ncalls) =>
          (grown.n = 1 /\ Len(calls) = last.ncalls + 1)
    /\ (cap # last.cap \/ ptr # last.ptr) => (grown.n = 1 /\ grown.kind = "ok")
    /\ (\/ (last.op = "push" /\ last.len < last.cap)
        \/ last.op \in {"pop", "deref", "deref_mut"}) =>
          /\ grown.n = 0
          /\ Len(calls) = last.ncalls
          /\ cap = last.cap /\ ptr = last.ptr /\ heap = last.heap

C14_Witness ==
    /\ last.op = "push" /\ Returned
    /\ last.len = 2 /\ last.cap = 4
    /\ grown.n = 0 /\ len = 3

\* C15: while the Vec exists it owns a live block iff cap > 0, of exactly
\* cap * size_of::<T>() bytes; realloc and dealloc are passed the current
\* live address with the size it was allocated with, alloc is called only
\* when cap = 0, and the dangling address is never passed to either.
C15_AllocationBinding ==
    /\ (pc # "dropped") =>
          /\ (cap > 0) <=> (ptr \in Addrs /\ heap[ptr] > 0)
          /\ (cap = 0) => ptr = Dangling
          /\ \A a \in Addrs :
                heap[a] = (IF cap > 0 /\ a = ptr THEN cap * T.size ELSE 0)
    /\ \A k \in 1..Len(calls) :
          LET c == calls[k]
          IN /\ (c.fn = "alloc") => (c.cap = 0 /\ c.new = T.size)
             /\ (c.fn \in {"realloc", "dealloc"}) =>
                   /\ c.addr = c.ptr
                   /\ c.addr \in Addrs /\ c.addr # Dangling
                   /\ c.held > 0
                   /\ c.old = c.held
                   /\ c.old = c.cap * T.size
             /\ (c.fn = "realloc") => c.new = 2 * c.cap * T.size

C15_Witness ==
    /\ pc = "dropped" /\ Len(calls) = 4
    /\ calls[2].fn = "realloc" /\ calls[2].res # calls[2].addr
    /\ calls[4].fn = "dealloc" /\ calls[4].addr = calls[3].res

\* C16: drop destructs the live elements in strictly decreasing index order,
\* len - 1 first and 0 last, and calls dealloc only after all of them, with
\* len = 0.
C16_DropOrder ==
    (pc = "dropped") =>
        /\ \A k \in 1..Len(dropLog) : dropLog[k].idx = last.len - k
        /\ \A k \in DeallocCalls :
              /\ calls[k].len = 0
              /\ Len(dropLog) = last.len
              /\ k = Len(calls)

C16_Witness ==
    /\ pc = "dropped" /\ Len(dropLog) = 3
    /\ dropLog[1].idx = 2 /\ dropLog[3].idx = 0
    /\ DeallocCalls # {}

\* C17: exactly the slots below len hold a live element; push writes only a
\* slot below cap that holds none, pop and drop read only slots that hold
\* one, and no slot is read or written while cap = 0.
C17_SlotDiscipline ==
    /\ live = 0..(len - 1)
    /\ \A i \in len..(cap - 1) : i \notin live
    /\ \A k \in 1..Len(acc) :
          /\ acc[k].cap > 0
          /\ acc[k].inblock /\ acc[k].idx < acc[k].cap
          /\ (acc[k].kind = "write") => (last.op = "push" /\ ~acc[k].live)
          /\ (acc[k].kind = "read") => (last.op \in {"pop", "drop"} /\ acc[k].live)
    /\ (last.op # "push" /\ last.cap = 0) => acc = <<>>

C17_Witness ==
    /\ last.op = "push" /\ Returned
    /\ last.len = 1 /\ Len(last.mem) >= 2 /\ last.mem[2] \in Vals
    /\ Len(acc) = 1 /\ acc[1].idx = 1 /\ live = {0, 1}

\* C18: with usize W bits wide, cap <= isize::MAX = 2^(W-1) - 1 in every
\* reachable state, 2 * cap does not wrap modulo 2^W, and cap is never set to
\* a smaller value or to zero.
C18_CapFitsISize ==
    /\ cap <= Pow2(W - 1) - 1
    /\ 2 * cap < Pow2(W)
    /\ cap >= last.cap
    /\ (grown.n = 1 /\ grown.kind = "ok") => (cap > last.cap /\ cap = Doubled(last.cap))

C18_Witness ==
    /\ last.op = "push" /\ grown.kind = "panicked"
    /\ T.size = 1 /\ cap = Pow2(W - 2)
    /\ 2 * cap > Pow2(W - 1) - 1

\* C19: cap is 0 or a power of two and equals the smallest power of two that
\* is >= the largest len so far (0 if nothing was pushed); so cap < 2 * peak
\* once peak >= 1, however many pops there were.
Powers == {Pow2(k) : k \in 0..W}
SmallestPowerAtLeast(n) ==
    IF n = 0 THEN 0
    ELSE CHOOSE p \in Powers : p >= n /\ \A q \in Powers : q >= n => p <= q

C19_CapIsNextPowerOfTwo ==
    /\ cap = 0 \/ cap \in Powers
    /\ cap = SmallestPowerAtLeast(peak)
    /\ (peak >= 1) => cap < 2 * peak

C19_Witness == popped /\ len = 0 /\ peak = 3 /\ cap = 4 /\ last.op = "pop"

====
